---------------------------- MODULE Spec2Model ----------------------------
(***************************************************************************)
(* A model of packages/webdriver/src/utils.js: session creation            *)
(* (startWebDriverSession, setupDirectConnect), response classification    *)
(* (isSuccessfulResponse), error translation (getErrorFromResponseBody,    *)
(* getSessionError) and command surface construction (getPrototype).       *)
(*                                                                         *)
(* The four components are checked under four specifications over the same *)
(* variables: SpecClassifier, SpecSessionError, SpecPrototype, SpecSession.*)
(***************************************************************************)
EXTENDS Integers, Sequences, FiniteSets, TLC

VARIABLES
    statusCode, body, outcome,
    err, errParams, diagnosis,
    tables, tables0, flags, ProtocolCommands, prototype, builds,
    params, before, pc, sessionRequest, reply, result, calls

classifierVars == <<statusCode, body, outcome>>
errorVars == <<err, errParams, diagnosis>>
prototypeVars == <<tables, tables0, flags, ProtocolCommands, prototype, builds>>
sessionVars == <<params, before, pc, sessionRequest, reply, result, calls>>
vars == <<classifierVars, errorVars, prototypeVars, sessionVars>>

---------------------------------------------------------------------------
(* JavaScript values.  Every value is a record tagged with its type, so    *)
(* that truthiness, property access and strict equality can be computed    *)
(* as the engine computes them.  An object is a function from its own      *)
(* property names to values; a property that is not there reads undefined. *)

Undefined == [t |-> "undefined"]
Null == [t |-> "null"]
Str(s) == [t |-> "string", s |-> s]
Num(n) == [t |-> "number", n |-> n]
Arr(a) == [t |-> "array", a |-> a]
Obj(f) == [t |-> "object", f |-> f]

\* Marks a property left out of an object literal; not a JavaScript value.
Absent == [t |-> "absent"]

\* The object whose properties are the pairs <<name, value>> of pairs,
\* those whose value is Absent left out.
ObjOf(pairs) ==
    LET present == {p \in pairs : p[2] # Absent}
    IN  Obj([k \in {p[1] : p \in present} |->
                (CHOOSE p \in present : p[1] = k)[2]])

EmptyObject == ObjOf({})

\* ToBoolean: undefined, null, "" and 0 are falsy, every object is truthy.
Truthy(v) ==
    CASE v.t = "undefined" -> FALSE
      [] v.t = "null" -> FALSE
      [] v.t = "string" -> v.s # ""
      [] v.t = "number" -> v.n # 0
      [] OTHER -> TRUE

\* a || b and a && b, which return one of their operands.
Or(a, b) == IF Truthy(a) THEN a ELSE b
And(a, b) == IF Truthy(a) THEN b ELSE a

\* Reading v.k raises a TypeError when v is undefined or null.
CanRead(v) == v.t \notin {"undefined", "null"}

\* v.k for a readable v: the own property, else undefined.
Get(v, k) == IF v.t = "object" /\ k \in DOMAIN v.f THEN v.f[k] ELSE Undefined

Has(v, k) == v.t = "object" /\ k \in DOMAIN v.f

\* o with property k set to v (o.k = v).
Put(o, k, v) ==
    Obj([j \in DOMAIN o.f \cup {k} |-> IF j = k THEN v ELSE o.f[j]])

---------------------------------------------------------------------------
(* Strings.  A string value carries its text; Chars gives the characters   *)
(* of the texts whose characters the code inspects (toLowerCase,           *)
(* startsWith).                                                            *)

NoSuchElement == "no such element"
AppiumNotLocated ==
    "An element could not be located on the page using the given search parameters."
UnableToFind == "unable to find element"

Chars(s) ==
    CASE s = "no such element" ->
        <<"n","o"," ","s","u","c","h"," ","e","l","e","m","e","n","t">>
      [] s = "No Such Element: xyz" ->
        <<"N","o"," ","S","u","c","h"," ","E","l","e","m","e","n","t",":"," ","x",
         "y","z">>
      [] s = "stale: no such element" ->
        <<"s","t","a","l","e",":"," ","n","o"," ","s","u","c","h"," ","e","l","e",
         "m","e","n","t">>
      [] s = "An element could not be located on the page using the given search parameters." ->
        <<"A","n"," ","e","l","e","m","e","n","t"," ","c","o","u","l","d"," ","n",
         "o","t"," ","b","e"," ","l","o","c","a","t","e","d"," ","o","n",
         " ","t","h","e"," ","p","a","g","e"," ","u","s","i","n","g"," ",
         "t","h","e"," ","g","i","v","e","n"," ","s","e","a","r","c","h",
         " ","p","a","r","a","m","e","t","e","r","s",".">>
      [] s = "an element could not be located on the page using the given search parameters." ->
        <<"a","n"," ","e","l","e","m","e","n","t"," ","c","o","u","l","d"," ","n",
         "o","t"," ","b","e"," ","l","o","c","a","t","e","d"," ","o","n",
         " ","t","h","e"," ","p","a","g","e"," ","u","s","i","n","g"," ",
         "t","h","e"," ","g","i","v","e","n"," ","s","e","a","r","c","h",
         " ","p","a","r","a","m","e","t","e","r","s",".">>
      [] s = "unable to find element" ->
        <<"u","n","a","b","l","e"," ","t","o"," ","f","i","n","d"," ","e","l","e",
         "m","e","n","t">>
      [] s = "Unable to find element with id x" ->
        <<"U","n","a","b","l","e"," ","t","o"," ","f","i","n","d"," ","e","l","e",
         "m","e","n","t"," ","w","i","t","h"," ","i","d"," ","x">>
      [] s = "boom" ->
        <<"b","o","o","m">>

UpperCase ==
    <<"A","B","C","D","E","F","G","H","I","J","K","L","M",
      "N","O","P","Q","R","S","T","U","V","W","X","Y","Z">>
LowerCase ==
    <<"a","b","c","d","e","f","g","h","i","j","k","l","m",
      "n","o","p","q","r","s","t","u","v","w","x","y","z">>

\* String.prototype.toLowerCase, on characters.
toLowerCase(chars) ==
    [i \in 1..Len(chars) |->
        IF \E j \in 1..Len(UpperCase) : UpperCase[j] = chars[i]
        THEN LowerCase[CHOOSE j \in 1..Len(UpperCase) : UpperCase[j] = chars[i]]
        ELSE chars[i]]

\* String.prototype.startsWith, on characters.
startsWith(chars, prefix) ==
    /\ Len(prefix) <= Len(chars)
    /\ SubSeq(chars, 1, Len(prefix)) = prefix

---------------------------------------------------------------------------
(* What a call ends with: a returned value or a raised error.              *)

Return(v) == [kind |-> "return", value |-> v]
Throw(e) == [kind |-> "throw", error |-> e]
Pending == [kind |-> "pending"]

---------------------------------------------------------------------------
(* isSuccessfulResponse (utils.js 78-138).                                 *)

isSuccessfulResponse(sc, b) ==
    IF ~Truthy(b) \/ Get(b, "value") = Undefined
    THEN Return(FALSE)
    ELSE
    LET value == Get(b, "value")
        status == Get(b, "status")
        message == Get(value, "message")
        hasErrorResponse ==
            And(value, Or(Or(Get(value, "error"), Get(value, "stackTrace")),
                          Get(value, "stacktrace")))
        rest ==
            IF Truthy(status) /\ status # Num(0) THEN Return(FALSE)
            ELSE IF sc = 200 /\ ~Truthy(hasErrorResponse) THEN Return(TRUE)
            ELSE IF /\ sc = 404
                    /\ Truthy(value)
                    /\ Get(value, "error") = Str(NoSuchElement) THEN Return(TRUE)
            ELSE IF Truthy(hasErrorResponse) THEN Return(FALSE)
            ELSE Return(TRUE)
    IN  IF status = Num(7) /\ Truthy(value) /\ Truthy(message)
        THEN \* message.toLowerCase is not a function unless message is a string
             IF message.t # "string" THEN Throw("TypeError")
             ELSE IF \/ startsWith(toLowerCase(Chars(message.s)), Chars(NoSuchElement))
                     \/ message = Str(AppiumNotLocated)
                     \/ startsWith(toLowerCase(Chars(message.s)), Chars(UnableToFind))
                  THEN Return(TRUE)
                  ELSE rest
        ELSE rest

\* The responses the classifier is applied to.
StatusCodes == {200, 404, 500}
LegacyStatuses == {Absent, Num(0), Num(7), Num(13)}
Messages ==
    {Absent, Str(""), Num(42),
     Str("no such element"), Str("No Such Element: xyz"),
     Str("stale: no such element"),
     Str(AppiumNotLocated),
     Str("an element could not be located on the page using the given search parameters."),
     Str("unable to find element"), Str("Unable to find element with id x"),
     Str("boom")}
ErrorNames == {Absent, Str(NoSuchElement), Str("unknown error")}
Traces == {{}, {<<"stackTrace", Str("at a")>>}, {<<"stacktrace", Str("at b")>>}}
ResponseValues ==
    {Absent, Null, Str(""), Str("done")} \cup
    {ObjOf({<<"message", m>>, <<"error", e>>} \cup tr) :
        m \in Messages, e \in ErrorNames, tr \in Traces}
ResponseBodies ==
    {Undefined, Null, Str(""), Str("OK")} \cup
    {ObjOf({<<"status", st>>, <<"value", v>>}) :
        st \in LegacyStatuses, v \in ResponseValues}

Classify ==
    /\ outcome = Pending
    /\ outcome' = isSuccessfulResponse(statusCode, body)
    /\ UNCHANGED <<statusCode, body>>
    /\ UNCHANGED <<errorVars, prototypeVars, sessionVars>>

---------------------------------------------------------------------------
(* Error objects and their messages.  The text of an error message is a    *)
(* sequence of pieces: each phrase the code looks for is one piece, and    *)
(* the other pieces hold none of these phrases, so 'includes' is           *)
(* membership among the pieces and === is equality with the one-piece      *)
(* text.                                                                   *)

Text(pieces) == [t |-> "text", p |-> pieces]

includes(text, phrase) == \E i \in 1..Len(text.p) : text.p[i] = phrase

\* !message: the message is undefined or the empty string.
NoMessage(m) == m = Undefined \/ m.p = <<>>

\* A value converted to a string, as in a template literal or by Error().
ToStr(v) ==
    CASE v.t = "string" -> v.s
      [] v.t = "number" -> ToString(v.n)
      [] v.t = "undefined" -> "undefined"
      [] v.t = "null" -> "null"
      [] OTHER -> "[object Object]"

Error(code, name, message) == [code |-> code, name |-> name, message |-> message]

BROWSER_DRIVER_ERRORS ==
    <<"unknown command: wd/hub/session",
      "HTTP method not allowed",
      "'POST /wd/hub/session' was not found.",
      "Command not found">>

UnhandledRequest == "unhandled request"
SeleniumHelpPage == "Whoops! The URL specified routes to this help page."
InvalidHostname == "Bad Request - Invalid Hostname"
HttpError400 == "HTTP Error 400"
IllegalW3cCaps == "Illegal key values seen in w3c capabilities"
EmptyBody == "Response has empty body"

DriverNotRunning(p) ==
    <<"Unable to connect to \"",
      ToStr(Get(p, "protocol")), "://", ToStr(Get(p, "hostname")), ":",
      ToStr(Get(p, "port")), ToStr(Get(p, "path")),
      "\", make sure browser driver is running on that address.",
      "\nIf you use services like chromedriver see initialiseServices logs above or in wdio.log file as the service might had problems to start the driver.">>
WrongBasePath ==
    <<"The browser driver couldn't start the session. Make sure you have set the \"path\" correctly!">>
\* (The texts below print the code's backquotes as apostrophes.)
SeeLogs == <<"See wdio.* logs for more information.">>
UseWdHubPath ==
    <<"It seems you are running a Selenium Standalone server and point to a wrong path. Please set 'path: '/wd/hub'' in your wdio.conf.js!">>
UseRootPath == <<"Make sure to set 'path: '/'' in your wdio.conf.js!">>
UseBindAddress ==
    <<"Run edge driver on 127.0.0.1 instead of localhost, ex: --host=127.0.0.1, or set 'hostname: 'localhost'' in your wdio.conf.js">>
w3cCapMessage ==
    <<"\nMake sure to add vendor prefix like \"goog:\", \"appium:\", \"moz:\", etc to non W3C capabilities.",
      "\nSee more https://www.w3.org/TR/webdriver/#capabilities">>
CheckHostPort ==
    <<"Make sure to connect to valid hostname:port or the port is not in use.",
      "\nIf you use a grid server ">> \o w3cCapMessage

\* Faulty variant of getSessionError: the browser-driver phrases are looked for
\* before the Selenium help-page phrase, and the connection target drops
\* the path.
getSessionErrorReordered(e, p) ==
    IF e.code = Str("ECONNREFUSED")
    THEN SubSeq(DriverNotRunning(p), 1, 6) \o SubSeq(DriverNotRunning(p), 8, 9)
    ELSE IF ~NoMessage(e.message) /\ e.message.p = <<UnhandledRequest>> THEN WrongBasePath
    ELSE IF NoMessage(e.message) THEN SeeLogs
    ELSE IF \E i \in 1..Len(BROWSER_DRIVER_ERRORS) :
                includes(e.message, BROWSER_DRIVER_ERRORS[i]) THEN UseRootPath
    ELSE IF includes(e.message, SeleniumHelpPage) THEN UseWdHubPath
    ELSE IF /\ includes(e.message, InvalidHostname)
            /\ includes(e.message, HttpError400) THEN UseBindAddress
    ELSE IF includes(e.message, IllegalW3cCaps) THEN e.message.p \o w3cCapMessage
    ELSE IF e.message.p = <<EmptyBody>> THEN CheckHostPort
    ELSE e.message.p

\* getSessionError (utils.js 259-304): the text it returns, in pieces.
getSessionError(e, p) ==
    IF e.code = Str("ECONNREFUSED") THEN DriverNotRunning(p)
    ELSE IF ~NoMessage(e.message) /\ e.message.p = <<UnhandledRequest>> THEN WrongBasePath
    ELSE IF NoMessage(e.message) THEN SeeLogs
    ELSE IF includes(e.message, SeleniumHelpPage) THEN UseWdHubPath
    ELSE IF \E i \in 1..Len(BROWSER_DRIVER_ERRORS) :
                includes(e.message, BROWSER_DRIVER_ERRORS[i]) THEN UseRootPath
    ELSE IF /\ includes(e.message, InvalidHostname)
            /\ includes(e.message, HttpError400) THEN UseBindAddress
    ELSE IF includes(e.message, IllegalW3cCaps) THEN e.message.p \o w3cCapMessage
    ELSE IF e.message.p = <<EmptyBody>> THEN CheckHostPort
    ELSE e.message.p

\* The transport errors and connection parameters getSessionError is given.
Phrases ==
    {BROWSER_DRIVER_ERRORS[i] : i \in 1..Len(BROWSER_DRIVER_ERRORS)} \cup
    {UnhandledRequest, SeleniumHelpPage, InvalidHostname, HttpError400,
     IllegalW3cCaps, EmptyBody}
Filler == "request failed: "
ErrorCodes == {Undefined, Str("ECONNREFUSED"), Str("ETIMEDOUT")}
ErrorMessages ==
    {Undefined, Text(<<>>), Text(<<Filler>>)} \cup
    {Text(<<ph>>) : ph \in Phrases} \cup
    {Text(<<Filler, ph>>) : ph \in Phrases} \cup
    {Text(<<pq[1], Filler, pq[2]>>) :
        pq \in {x \in Phrases \X Phrases : x[1] # x[2]}}
Connection(protocol, hostname, port, path) ==
    ObjOf({<<"protocol", protocol>>, <<"hostname", hostname>>,
           <<"port", port>>, <<"path", path>>})
LocalDriver == Connection(Str("http"), Str("localhost"), Num(9515), Str("/"))
ConnectionParams ==
    {LocalDriver,
     Connection(Str("https"), Str("hub.example.org"), Num(443), Str("/wd/hub")),
     Connection(Str("http"), Str("localhost"), Num(4444), Absent)}

Diagnose ==
    /\ diagnosis = <<>>
    /\ diagnosis' = getSessionError(err, errParams)
    /\ UNCHANGED <<err, errParams>>
    /\ UNCHANGED <<classifierVars, prototypeVars, sessionVars>>

---------------------------------------------------------------------------
(* Protocol command tables.  A table is an object whose keys are endpoint  *)
(* templates, each holding an object whose keys are HTTP methods, each     *)
(* holding a command descriptor.  Object.entries walks an object's string  *)
(* keys in insertion order, so a table is kept as the sequence of its      *)
(* entries in that order, and so are the methods of an endpoint.           *)

Descriptor(command, ref, parameters) ==
    [command |-> command, ref |-> ref, parameters |-> parameters]
Method(method, data) == [method |-> method, data |-> data]
Endpoint(endpoint, methods) == [endpoint |-> endpoint, methods |-> methods]

\* lodash merge of two arrays: index by index, the source's elements over
\* the destination's, the destination's further elements kept.
MergeArray(dst, src) ==
    [i \in 1..(IF Len(dst) > Len(src) THEN Len(dst) ELSE Len(src)) |->
        IF i <= Len(src) THEN src[i] ELSE dst[i]]

\* lodash merge of two descriptors: every property of the source is
\* written over the destination's, arrays merged recursively, and the
\* destination's other properties are kept.
MergeDescriptor(dst, src) ==
    [k \in DOMAIN dst \cup DOMAIN src |->
        IF k \notin DOMAIN src THEN dst[k]
        ELSE IF k = "parameters" /\ k \in DOMAIN dst
             THEN MergeArray(dst[k], src[k])
             ELSE src[k]]

HasMethod(methods, m) == \E i \in 1..Len(methods) : methods[i].method = m
MethodData(methods, m) ==
    methods[CHOOSE i \in 1..Len(methods) : methods[i].method = m].data

\* lodash merge of the method objects of one endpoint: a method both have
\* keeps its place and has its descriptors merged, a new one is appended.
MergeMethods(dst, src) ==
    LET IsNew(e) == ~HasMethod(dst, e.method)
    IN  [i \in 1..Len(dst) |->
            IF HasMethod(src, dst[i].method)
            THEN Method(dst[i].method,
                        MergeDescriptor(dst[i].data, MethodData(src, dst[i].method)))
            ELSE dst[i]] \o SelectSeq(src, IsNew)

HasEndpoint(table, e) == \E i \in 1..Len(table) : table[i].endpoint = e
EndpointMethods(table, e) ==
    table[CHOOSE i \in 1..Len(table) : table[i].endpoint = e].methods

\* lodash merge(object, source) on tables: the result is what `object`
\* holds afterwards, merge writes into its first argument.
Merge2(object, source) ==
    LET IsNew(e) == ~HasEndpoint(object, e.endpoint)
    IN  [i \in 1..Len(object) |->
            IF HasEndpoint(source, object[i].endpoint)
            THEN Endpoint(object[i].endpoint,
                          MergeMethods(object[i].methods,
                                       EndpointMethods(source, object[i].endpoint)))
            ELSE object[i]] \o SelectSeq(source, IsNew)

\* merge(object, s1, ..., sn): the sources are merged in from left to right.
RECURSIVE merge(_, _)
merge(object, sources) ==
    IF sources = <<>> THEN object
    ELSE merge(Merge2(object, Head(sources)), Tail(sources))

\* The (endpoint, method, descriptor) triples of a table in the order the
\* nested for-of loops over Object.entries visit them.
RECURSIVE Entries(_)
Entries(table) ==
    IF table = <<>> THEN <<>>
    ELSE [i \in 1..Len(Head(table).methods) |->
            [endpoint |-> Head(table).endpoint,
             method |-> Head(table).methods[i].method,
             commandData |-> Head(table).methods[i].data]]
         \o Entries(Tail(table))

\* command(method, endpoint, commandData, isSeleniumStandalone) of
\* ./command: the function bound to these four arguments.
command(method, endpoint, commandData, isSeleniumStandalone) ==
    [method |-> method, endpoint |-> endpoint, commandData |-> commandData,
     isSeleniumStandalone |-> isSeleniumStandalone]

\* The base object the layers are merged into (utils.js 151-153).  When the
\* session is not mobile this is the imported table itself, not a copy.
BaseTable(T, f) ==
    IF f.isMobile THEN merge(<<>>, <<T.JsonWProtocol, T.WebDriverProtocol>>)
    ELSE IF f.isW3C THEN T.WebDriverProtocol ELSE T.JsonWProtocol

\* The merged table of utils.js 145-171.
MergedCommands(T, f) ==
    merge(BaseTable(T, f),
          << IF f.isMobile
             THEN merge(<<>>, <<T.MJsonWProtocol, T.AppiumProtocol>>) ELSE <<>>,
             IF f.isChrome THEN T.ChromiumProtocol ELSE <<>>,
             IF f.isSauce THEN T.SauceLabsProtocol ELSE <<>>,
             IF f.isSeleniumStandalone THEN T.SeleniumProtocol ELSE <<>> >>)

\* The imported tables after the call that produced `merged`: merge has
\* written the layers into its first argument and returned it, and that
\* argument is an imported table unless isMobile.
TablesAfter(T, f, merged) ==
    IF f.isMobile THEN T
    ELSE IF f.isW3C
         THEN [T EXCEPT !.WebDriverProtocol = merged]
         ELSE [T EXCEPT !.JsonWProtocol = merged]

\* The prototype object of utils.js 173-179: a later entry of the walk
\* overwrites an earlier one that declares the same command name.
Surface(table, f) ==
    LET entries == Entries(table)
        Last(n) == CHOOSE i \in 1..Len(entries) :
                      /\ entries[i].commandData.command = n
                      /\ \A j \in (i + 1)..Len(entries) :
                            entries[j].commandData.command # n
    IN  [n \in {entries[i].commandData.command : i \in 1..Len(entries)} |->
            command(entries[Last(n)].method, entries[Last(n)].endpoint,
                    entries[Last(n)].commandData, f.isSeleniumStandalone)]

\* The imported tables of @wdio/protocols are input data.  Two sets of
\* tables are tried.  In the first, a vendor extension declares a command
\* name on an endpoint of its own; in the second, extensions also declare
\* commands on endpoints and methods that the base tables already hold.
W3cRef == "https://w3c.github.io/webdriver/"
JsonWRef == "https://github.com/SeleniumHQ/selenium/wiki/JsonWireProtocol"
MJsonWRef == "https://github.com/SeleniumHQ/mobile-spec"
AppiumRef == "https://appium.io/docs"
ChromiumRef == "https://chromium.googlesource.com/chromium/src/chrome/test/chromedriver"
SauceRef == "https://wiki.saucelabs.com/display/DOCS"
SeleniumRef == "https://www.seleniumhq.org/"

WebDriverTable ==
    << Endpoint("/session/:sessionId/timeouts",
         << Method("GET", Descriptor("getTimeouts", W3cRef, <<>>)),
            Method("POST", Descriptor("setTimeouts", W3cRef,
                                      <<"implicit", "pageLoad", "script">>)) >>),
       Endpoint("/session/:sessionId/url",
         << Method("GET", Descriptor("getUrl", W3cRef, <<>>)),
            Method("POST", Descriptor("navigateTo", W3cRef, <<"url">>)) >>) >>
JsonWTable ==
    << Endpoint("/session/:sessionId/url",
         << Method("GET", Descriptor("getUrl", JsonWRef, <<>>)),
            Method("POST", Descriptor("navigateTo", JsonWRef, <<"url">>)) >>),
       Endpoint("/session/:sessionId/location",
         << Method("GET", Descriptor("getGeoLocation", JsonWRef, <<>>)),
            Method("POST", Descriptor("setGeoLocation", JsonWRef, <<"location">>)) >>),
       Endpoint("/session/:sessionId/file",
         << Method("POST", Descriptor("file", JsonWRef, <<"file">>)) >>) >>
MJsonWTable ==
    << Endpoint("/session/:sessionId/context",
         << Method("GET", Descriptor("getContext", MJsonWRef, <<>>)),
            Method("POST", Descriptor("switchContext", MJsonWRef, <<"name">>)) >>) >>
AppiumTable ==
    << Endpoint("/session/:sessionId/appium/device/shake",
         << Method("POST", Descriptor("shake", AppiumRef, <<>>)) >>) >>
ChromiumTable ==
    << Endpoint("/session/:sessionId/chromium/heap_snapshot",
         << Method("GET", Descriptor("takeHeapSnapshot", ChromiumRef, <<>>)) >>) >>
SauceLabsTable ==
    << Endpoint("/session/:sessionId/sauce/ondemand/log",
         << Method("POST", Descriptor("getPageLogs", SauceRef, <<"type">>)) >>) >>
SeleniumTable ==
    << Endpoint("/session/:sessionId/se/file",
         << Method("POST", Descriptor("file", SeleniumRef, <<"file">>)) >>),
       Endpoint("/grid/api/hub/",
         << Method("GET", Descriptor("getHubConfig", SeleniumRef, <<>>)) >>) >>

\* Extensions that override: Chromium declares setTimeouts on an endpoint
\* of its own; Selenium redeclares POST /timeouts, with one parameter.
ChromiumOverrides ==
    << Endpoint("/session/:sessionId/chromium/timeouts",
         << Method("POST", Descriptor("setTimeouts", ChromiumRef, <<"ms">>)) >>),
       Endpoint("/session/:sessionId/chromium/heap_snapshot",
         << Method("GET", Descriptor("takeHeapSnapshot", ChromiumRef, <<>>)) >>) >>
SeleniumOverrides ==
    << Endpoint("/session/:sessionId/timeouts",
         << Method("POST", Descriptor("setTimeouts", SeleniumRef, <<"timeouts">>)) >>),
       Endpoint("/grid/api/hub/",
         << Method("GET", Descriptor("getHubConfig", SeleniumRef, <<>>)) >>) >>

ShippedTables ==
    [WebDriverProtocol |-> WebDriverTable, JsonWProtocol |-> JsonWTable,
     MJsonWProtocol |-> MJsonWTable, AppiumProtocol |-> AppiumTable,
     ChromiumProtocol |-> ChromiumTable, SauceLabsProtocol |-> SauceLabsTable,
     SeleniumProtocol |-> SeleniumTable]
OverridingTables ==
    [ShippedTables EXCEPT !.ChromiumProtocol = ChromiumOverrides,
                          !.SeleniumProtocol = SeleniumOverrides]
TableChoices == {ShippedTables, OverridingTables}

Flags ==
    [isW3C : BOOLEAN, isChrome : BOOLEAN, isMobile : BOOLEAN,
     isSauce : BOOLEAN, isSeleniumStandalone : BOOLEAN]
NoFlags ==
    [isW3C |-> FALSE, isChrome |-> FALSE, isMobile |-> FALSE,
     isSauce |-> FALSE, isSeleniumStandalone |-> FALSE]

\* How many times getPrototype is called, one session after the other.
MaxBuilds == 2

\* getPrototype (utils.js 143-180), called for a session with flags f.
getPrototype(f) ==
    /\ builds < MaxBuilds
    /\ builds' = builds + 1
    /\ flags' = f
    /\ ProtocolCommands' = MergedCommands(tables, f)
    /\ tables' = TablesAfter(tables, f, ProtocolCommands')
    /\ prototype' = Surface(ProtocolCommands', f)
    /\ UNCHANGED tables0
    /\ UNCHANGED <<classifierVars, errorVars, sessionVars>>

---------------------------------------------------------------------------
(* getErrorFromResponseBody and CustomRequestError (utils.js 187-214).     *)

StaleElement == "stale element reference"

CustomRequestError(b) ==
    LET errorObj == Or(Get(b, "value"), b)
        message == Or(Or(Get(errorObj, "message"), Get(errorObj, "class")),
                      Str("unknown error"))
        text == Text(<<ToStr(message)>>)
    IN  IF Truthy(Get(errorObj, "error"))
        THEN Error(Undefined, ToStr(Get(errorObj, "error")), text)
        ELSE IF Truthy(Get(errorObj, "message"))
        THEN \* message.includes is not a function unless message is a string
             IF Get(errorObj, "message").t # "string"
             THEN Error(Undefined, "TypeError",
                        Text(<<"errorObj.message.includes is not a function">>))
             ELSE IF includes(text, StaleElement)
                  THEN Error(Undefined, StaleElement, text)
                  ELSE Error(Undefined, "Error", text)
        ELSE Error(Undefined, "Error", text)

getErrorFromResponseBody(b) ==
    IF ~Truthy(b) THEN Error(Undefined, "Error", Text(<<EmptyBody>>))
    ELSE IF b.t = "string" THEN Error(Undefined, "Error", Text(<<b.s>>))
    ELSE IF \/ b.t \notin {"object", "array"}
            \/ (~Truthy(Get(b, "value")) /\ ~Truthy(Get(b, "error")))
         THEN Error(Undefined, "Error", Text(<<"unknown error">>))
    ELSE CustomRequestError(b)

---------------------------------------------------------------------------
(* startWebDriverSession (utils.js 23-71) and setupDirectConnect           *)
(* (utils.js 240-253).  The session-creation request is one exchange with  *)
(* the transport: the call is suspended at the await of makeRequest and    *)
(* resumed by the transport's answer.                                      *)

\* Faulty variant of DualCapabilities: the structured form is recognised by an
\* alwaysMatch that has properties, so an empty alwaysMatch is wrapped.
DualCapabilitiesNonEmpty(caps) ==
    IF /\ Truthy(caps)
       /\ Truthy(Get(caps, "alwaysMatch"))
       /\ Get(caps, "alwaysMatch") # EmptyObject
    THEN <<caps, Get(caps, "alwaysMatch")>>
    ELSE <<ObjOf({<<"alwaysMatch", caps>>, <<"firstMatch", Arr(<<EmptyObject>>)>>}),
           caps>>

\* [w3cCaps, jsonwpCaps] of utils.js 30-38.
DualCapabilities(caps) ==
    IF Truthy(And(caps, Get(caps, "alwaysMatch")))
    THEN <<caps, Get(caps, "alwaysMatch")>>
    ELSE <<ObjOf({<<"alwaysMatch", caps>>, <<"firstMatch", Arr(<<EmptyObject>>)>>}),
           caps>>

\* new WebDriverRequest('POST', '/session', {...}) of utils.js 40-47.
WebDriverRequest(method, endpoint, requestBody) ==
    [method |-> method, endpoint |-> endpoint, body |-> requestBody]
NoRequest == WebDriverRequest("", "", Undefined)

\* What the transport answers: an error of its own, or a status code and a
\* decoded body.
NoReply == [kind |-> "none"]
ErrorReply(e) == [kind |-> "error", error |-> e]
Response(sc, b) == [kind |-> "response", statusCode |-> sc, body |-> b]

\* WebDriverRequest.makeRequest, of ./request: it resolves with the body of
\* a reply the classifier accepts and rejects with the transport's error or
\* with the error made from the body of any other reply.
makeRequest(r) ==
    IF r.kind = "error" THEN Throw(r.error)
    ELSE LET verdict == isSuccessfulResponse(r.statusCode, r.body)
         IN  IF verdict.kind = "throw"
             THEN Throw(Error(Undefined, verdict.error,
                              Text(<<"body.value.message.toLowerCase is not a function">>)))
             ELSE IF verdict.value THEN Return(r.body)
             ELSE Throw(getErrorFromResponseBody(r.body))

\* The error of utils.js 52-56.
SessionError(e, p) ==
    Error(Undefined, "Error",
          Text(<<"Failed to create session.\n">> \o getSessionError(e, p)))

\* Faulty variant of ResolveSessionId: only the flat envelope is read.
ResolveSessionIdFlat(response) == Get(response, "sessionId")

\* utils.js 57, for a response whose value can be read.
ResolveSessionId(response) ==
    Or(Get(Get(response, "value"), "sessionId"), Get(response, "sessionId"))

\* utils.js 68.
ResolveCapabilities(response) ==
    Or(Get(Get(response, "value"), "capabilities"), Get(response, "value"))

\* Faulty variant of ParamsAfterResponse: requestedCapabilities is saved before the
\* session identifier is read from the response.
ParamsAfterResponseEarlySave(p, request, response) ==
    LET saved == Put(p, "requestedCapabilities",
                     ObjOf({<<"w3cCaps", Get(request.body, "capabilities")>>,
                            <<"jsonwpCaps", Get(request.body, "desiredCapabilities")>>}))
    IN  IF ~CanRead(Get(response, "value")) THEN saved
        ELSE Put(saved, "capabilities", ResolveCapabilities(response))

\* params after utils.js 57-70 ran on a response makeRequest resolved with:
\* reading response.value.sessionId raises before anything is written.
ParamsAfterResponse(p, request, response) ==
    IF ~CanRead(Get(response, "value")) THEN p
    ELSE Put(Put(p, "requestedCapabilities",
                 ObjOf({<<"w3cCaps", Get(request.body, "capabilities")>>,
                        <<"jsonwpCaps", Get(request.body, "desiredCapabilities")>>})),
             "capabilities", ResolveCapabilities(response))

\* Faulty variant of DirectConnectParams: an empty directConnectPath is not accepted.
DirectConnectParamsTruthyPath(p) ==
    LET caps == Get(p, "capabilities")
    IN  IF /\ Truthy(Get(caps, "directConnectProtocol"))
           /\ Truthy(Get(caps, "directConnectHost"))
           /\ Truthy(Get(caps, "directConnectPort"))
           /\ Truthy(Get(caps, "directConnectPath"))
        THEN Put(Put(Put(Put(p, "protocol", Get(caps, "directConnectProtocol")),
                         "hostname", Get(caps, "directConnectHost")),
                     "port", Get(caps, "directConnectPort")),
                 "path", Get(caps, "directConnectPath"))
        ELSE p

\* params after setupDirectConnect (utils.js 241-252), capabilities readable.
DirectConnectParams(p) ==
    LET caps == Get(p, "capabilities")
        directConnectProtocol == Get(caps, "directConnectProtocol")
        directConnectHost == Get(caps, "directConnectHost")
        directConnectPort == Get(caps, "directConnectPort")
        directConnectPath == Get(caps, "directConnectPath")
    IN  IF /\ Truthy(directConnectProtocol)
           /\ Truthy(directConnectHost)
           /\ Truthy(directConnectPort)
           /\ (Truthy(directConnectPath) \/ directConnectPath = Str(""))
        THEN Put(Put(Put(Put(p, "protocol", directConnectProtocol),
                         "hostname", directConnectHost),
                     "port", directConnectPort),
                 "path", directConnectPath)
        ELSE p

\* How often startWebDriverSession is called again after a failure.
MaxCalls == 2

\* The capabilities a caller asks for: none, flat (JSONWP) ones, structured
\* (W3C) ones with a filled and with an empty alwaysMatch, and an object
\* whose alwaysMatch is null.
Chrome == ObjOf({<<"browserName", Str("chrome")>>})
RequestedCapabilities ==
    {Absent,
     Chrome,
     ObjOf({<<"alwaysMatch", Chrome>>, <<"firstMatch", Arr(<<EmptyObject>>)>>}),
     ObjOf({<<"alwaysMatch", EmptyObject>>, <<"firstMatch", Arr(<<Chrome>>)>>}),
     ObjOf({<<"alwaysMatch", Null>>, <<"firstMatch", Arr(<<Chrome>>)>>})}

\* params as a caller passes it: fresh, or kept from an earlier session
\* (with that session's requestedCapabilities) to request the session again.
FreshParams(caps) ==
    ObjOf({<<"protocol", Str("http")>>, <<"hostname", Str("localhost")>>,
           <<"port", Num(4444)>>, <<"path", Str("/")>>,
           <<"capabilities", caps>>})
InitialParams ==
    {FreshParams(c) : c \in RequestedCapabilities} \cup
    {Put(FreshParams(Chrome), "requestedCapabilities",
         ObjOf({<<"w3cCaps", DualCapabilities(Chrome)[1]>>,
                <<"jsonwpCaps", DualCapabilities(Chrome)[2]>>}))}

\* The direct-connect properties a server may add to the capabilities it
\* returns: each is left out, empty or set.
DirectConnect ==
    {{<<"directConnectProtocol", pr>>, <<"directConnectHost", ho>>,
      <<"directConnectPort", po>>, <<"directConnectPath", pa>>} :
        pr \in {Absent, Str("https")},
        ho \in {Absent, Str(""), Str("node1.example.org")},
        po \in {Absent, Num(4723)},
        pa \in {Absent, Str(""), Str("/wd/hub")}}
ServerCapabilities ==
    {ObjOf({<<"browserName", Str("chrome")>>} \cup dc) : dc \in DirectConnect}

\* The replies to the session-creation request.  A modern reply wraps the
\* identifier and the capabilities in value, a legacy reply holds the
\* identifier beside a value that is the capabilities.
SessionIds == {Absent, Str("abc123")}
ReplyValues ==
    {Absent, Null, Str("")} \cup
    {ObjOf({<<"sessionId", id>>, <<"capabilities", c>>}) :
        id \in {Absent, Str("xyz789")}, c \in ServerCapabilities} \cup
    {Put(c, "sessionId", Str("xyz789")) : c \in ServerCapabilities} \cup
    ServerCapabilities \cup
    {ObjOf({<<"error", Str("session not created")>>, <<"message", Str("boom")>>}),
     ObjOf({<<"message", Str("stale element reference: gone")>>}),
     ObjOf({<<"sessionId", Str("xyz789")>>, <<"capabilities", Null>>})}
ReplyBodies ==
    {Undefined, Str("Bad Gateway")} \cup
    {ObjOf({<<"sessionId", id>>, <<"status", st>>, <<"value", v>>}) :
        id \in SessionIds, st \in {Absent, Num(0), Num(13)}, v \in ReplyValues}
Replies ==
    {Response(sc, b) : sc \in {200, 500}, b \in ReplyBodies} \cup
    {ErrorReply(Error(Str("ECONNREFUSED"), "Error",
                      Text(<<"connect ECONNREFUSED 127.0.0.1:4444">>))),
     ErrorReply(Error(Undefined, "Error", Text(<<UnhandledRequest>>))),
     ErrorReply(Error(Str("ETIMEDOUT"), "Error", Undefined))}

\* utils.js 30-51: the request is made from params.capabilities and sent.
\* A failed call may be followed by another one.
SendSessionRequest ==
    /\ pc \in {"idle", "failed"}
    /\ calls < MaxCalls
    /\ LET caps == DualCapabilities(Get(params, "capabilities"))
       IN  sessionRequest' =
               WebDriverRequest("POST", "/session",
                   ObjOf({<<"capabilities", caps[1]>>,
                          <<"desiredCapabilities", caps[2]>>}))
    /\ before' = params
    /\ pc' = "requesting"
    /\ reply' = NoReply
    /\ result' = Pending
    /\ calls' = calls + 1
    /\ UNCHANGED params
    /\ UNCHANGED <<classifierVars, errorVars, prototypeVars>>

\* utils.js 52-56: makeRequest rejected.
SessionRequestRejected(r) ==
    /\ pc = "requesting"
    /\ makeRequest(r).kind = "throw"
    /\ reply' = r
    /\ result' = Throw(SessionError(makeRequest(r).error, params))
    /\ pc' = "failed"
    /\ UNCHANGED <<params, before, sessionRequest, calls>>
    /\ UNCHANGED <<classifierVars, errorVars, prototypeVars>>

\* utils.js 57-70: makeRequest resolved with a response.
SessionRequestResolved(r) ==
    /\ pc = "requesting"
    /\ makeRequest(r).kind = "return"
    /\ reply' = r
    /\ LET response == makeRequest(r).value
       IN  /\ params' = ParamsAfterResponse(params, sessionRequest, response)
           /\ IF ~CanRead(Get(response, "value"))
              THEN /\ result' = Throw(Error(Undefined, "TypeError",
                          Text(<<"Cannot read property 'sessionId' of ",
                                 ToStr(Get(response, "value"))>>)))
                   /\ pc' = "failed"
              ELSE /\ result' = Return(ResolveSessionId(response))
                   /\ pc' = "established"
    /\ UNCHANGED <<before, sessionRequest, calls>>
    /\ UNCHANGED <<classifierVars, errorVars, prototypeVars>>

\* setupDirectConnect (utils.js 240-253), called on the params of an
\* established session.
setupDirectConnect ==
    /\ pc = "established"
    /\ CanRead(Get(params, "capabilities"))
    /\ before' = params
    /\ params' = DirectConnectParams(params)
    /\ pc' = "connected"
    /\ UNCHANGED <<sessionRequest, reply, result, calls>>
    /\ UNCHANGED <<classifierVars, errorVars, prototypeVars>>

---------------------------------------------------------------------------
(* The specifications, one per component.  Each starts its own component   *)
(* on its inputs and leaves the other components unused.                   *)

InitClassifier ==
    /\ statusCode \in StatusCodes
    /\ body \in ResponseBodies
    /\ outcome = Pending
    /\ err = Undefined /\ errParams = Undefined /\ diagnosis = <<>>
    /\ tables = <<>> /\ tables0 = <<>> /\ flags = NoFlags
    /\ ProtocolCommands = <<>> /\ prototype = <<>> /\ builds = 0
    /\ params = Undefined /\ before = Undefined /\ pc = "unused"
    /\ sessionRequest = NoRequest /\ reply = NoReply /\ result = Pending
    /\ calls = 0

NextClassifier == Classify

SpecClassifier == InitClassifier /\ [][NextClassifier]_vars

InitSessionError ==
    /\ statusCode = 0 /\ body = Undefined /\ outcome = Pending
    /\ err \in {Error(c, "Error", m) : c \in ErrorCodes, m \in ErrorMessages}
    /\ errParams \in ConnectionParams
    /\ diagnosis = <<>>
    /\ tables = <<>> /\ tables0 = <<>> /\ flags = NoFlags
    /\ ProtocolCommands = <<>> /\ prototype = <<>> /\ builds = 0
    /\ params = Undefined /\ before = Undefined /\ pc = "unused"
    /\ sessionRequest = NoRequest /\ reply = NoReply /\ result = Pending
    /\ calls = 0

NextSessionError == Diagnose

SpecSessionError == InitSessionError /\ [][NextSessionError]_vars

InitPrototype ==
    /\ statusCode = 0 /\ body = Undefined /\ outcome = Pending
    /\ err = Undefined /\ errParams = Undefined /\ diagnosis = <<>>
    /\ tables \in TableChoices
    /\ tables0 = tables
    /\ flags = NoFlags
    /\ ProtocolCommands = <<>>
    /\ prototype = <<>>
    /\ builds = 0
    /\ params = Undefined /\ before = Undefined /\ pc = "unused"
    /\ sessionRequest = NoRequest /\ reply = NoReply /\ result = Pending
    /\ calls = 0

NextPrototype == \E f \in Flags : getPrototype(f)

SpecPrototype == InitPrototype /\ [][NextPrototype]_vars

InitSession ==
    /\ statusCode = 0 /\ body = Undefined /\ outcome = Pending
    /\ err = Undefined /\ errParams = Undefined /\ diagnosis = <<>>
    /\ tables = <<>> /\ tables0 = <<>> /\ flags = NoFlags
    /\ ProtocolCommands = <<>> /\ prototype = <<>> /\ builds = 0
    /\ params \in InitialParams
    /\ before = params
    /\ pc = "idle"
    /\ sessionRequest = NoRequest
    /\ reply = NoReply
    /\ result = Pending
    /\ calls = 0

NextSession ==
    \/ SendSessionRequest
    \/ \E r \in Replies : SessionRequestRejected(r)
    \/ \E r \in Replies : SessionRequestResolved(r)
    \/ setupDirectConnect

SpecSession == InitSession /\ [][NextSession]_vars

---------------------------------------------------------------------------
(* Response classification: claims C1 and C10.                             *)

\* The rules of the classifier as the specification lists them, each as a
\* condition on the status code and the decoded body.
HasValue(b) == b.t = "object" /\ Has(b, "value")
HasErrorIndicator(b) ==
    \E k \in {"error", "stackTrace", "stacktrace"} : Has(Get(b, "value"), k)
ElementMissingMessage(m) ==
    /\ m.t = "string"
    /\ m.s # ""
    /\ \/ startsWith(toLowerCase(Chars(m.s)), Chars("no such element"))
       \/ m.s = AppiumNotLocated
       \/ startsWith(toLowerCase(Chars(m.s)), Chars("unable to find element"))
RuleMatches(i, sc, b) ==
    CASE i = 1 -> ~HasValue(b)
      [] i = 2 -> /\ Get(b, "status") = Num(7)
                  /\ ElementMissingMessage(Get(Get(b, "value"), "message"))
      [] i = 3 -> Has(b, "status") /\ Get(b, "status") # Num(0)
      [] i = 4 -> sc = 200 /\ ~HasErrorIndicator(b)
      [] i = 5 -> sc = 404 /\ Get(Get(b, "value"), "error") = Str("no such element")
      [] i = 6 -> HasErrorIndicator(b)
      [] i = 7 -> TRUE
RuleOutcome == <<FALSE, TRUE, FALSE, TRUE, TRUE, FALSE, TRUE>>
FirstMatchingRule(sc, b) ==
    CHOOSE i \in 1..7 :
        RuleMatches(i, sc, b) /\ \A j \in 1..(i - 1) : ~RuleMatches(j, sc, b)

\* C1: for every status code and body, isSuccessfulResponse returns the
\* outcome of the first rule of the ordered list that matches: failure for
\* rules 1, 3 and 6, success for rules 2, 4, 5 and 7.
C1_FirstMatchingRuleDecides ==
    outcome # Pending =>
        outcome = Return(RuleOutcome[FirstMatchingRule(statusCode, body)])

\* C10: isSuccessfulResponse never raises; for every status code and every
\* decoded body it returns an outcome.
C10_ClassifierNeverRaises ==
    outcome # Pending => outcome.kind = "return"

\* Where the calls that return agree with the rule list: the classifier
\* departs from it only by raising.
ClassifierReturnsFollowRules ==
    outcome.kind = "return" =>
        outcome = Return(RuleOutcome[FirstMatchingRule(statusCode, body)])

---------------------------------------------------------------------------
(* Error translation: claim C9.                                            *)

\* The priority list of the specification: which rule an error matches,
\* and the guidance each rule gives.
DiagnosisRuleMatches(i, e) ==
    LET m == e.message
        said == m # Undefined /\ m.p # <<>>
    IN  CASE i = 1 -> e.code = Str("ECONNREFUSED")
          [] i = 2 -> said /\ m.p = <<"unhandled request">>
          [] i = 3 -> ~said
          [] i = 4 -> said /\ includes(m, "Whoops! The URL specified routes to this help page.")
          [] i = 5 -> said /\ \E ph \in {"unknown command: wd/hub/session",
                                       "HTTP method not allowed",
                                       "'POST /wd/hub/session' was not found.",
                                       "Command not found"} : includes(m, ph)
          [] i = 6 -> /\ said
                      /\ includes(m, "Bad Request - Invalid Hostname")
                      /\ includes(m, "HTTP Error 400")
          [] i = 7 -> said /\ includes(m, "Illegal key values seen in w3c capabilities")
          [] i = 8 -> said /\ m.p = <<"Response has empty body">>
          [] i = 9 -> TRUE
DiagnosisGuidance(i, e, p) ==
    CASE i = 1 -> DriverNotRunning(p)
      [] i = 2 -> WrongBasePath
      [] i = 3 -> SeeLogs
      [] i = 4 -> UseWdHubPath
      [] i = 5 -> UseRootPath
      [] i = 6 -> UseBindAddress
      [] i = 7 -> e.message.p \o w3cCapMessage
      [] i = 8 -> CheckHostPort
      [] i = 9 -> e.message.p
FirstDiagnosisRule(e) ==
    CHOOSE i \in 1..9 :
        DiagnosisRuleMatches(i, e) /\ \A j \in 1..(i - 1) : ~DiagnosisRuleMatches(j, e)
DiagnosisRulesMatching(e) == {i \in 1..8 : DiagnosisRuleMatches(i, e)}

\* C9: getSessionError returns the guidance of the first rule that matches
\* in the fixed priority order, an error that matches several rules gets
\* the earliest one, and for a refused connection to
\* {http, localhost, 9515, "/"} the guidance holds http://localhost:9515/.
C9_FirstDiagnosisRuleWins ==
    diagnosis # <<>> =>
        /\ diagnosis = DiagnosisGuidance(FirstDiagnosisRule(err), err, errParams)
        /\ (err.code = Str("ECONNREFUSED") /\ errParams = LocalDriver) =>
              SubSeq(diagnosis, 2, 7) = <<"http", "://", "localhost", ":", "9515", "/">>

\* C9's case: an error that matches the help-page rule and the
\* browser-driver rule has been given the help-page guidance.
C9_Witness ==
    /\ diagnosis = UseWdHubPath
    /\ Cardinality(DiagnosisRulesMatching(err)) >= 2
    /\ DiagnosisRuleMatches(5, err)

---------------------------------------------------------------------------
(* Command surface construction: claims C2, C6 and C7.                     *)

\* The layers of the merge order for flags f, lowest precedence first, taken
\* from the tables T.
Layers(T, f) ==
    (IF f.isMobile THEN <<T.JsonWProtocol, T.WebDriverProtocol>>
     ELSE IF f.isW3C THEN <<T.WebDriverProtocol>> ELSE <<T.JsonWProtocol>>)
    \o (IF f.isMobile THEN <<T.MJsonWProtocol, T.AppiumProtocol>> ELSE <<>>)
    \o (IF f.isChrome THEN <<T.ChromiumProtocol>> ELSE <<>>)
    \o (IF f.isSauce THEN <<T.SauceLabsProtocol>> ELSE <<>>)
    \o (IF f.isSeleniumStandalone THEN <<T.SeleniumProtocol>> ELSE <<>>)

\* The (endpoint, method) pairs of a table, and the descriptor at one.
Keys(table) ==
    UNION {{<<table[i].endpoint, table[i].methods[j].method>> :
               j \in 1..Len(table[i].methods)} : i \in 1..Len(table)}
Lookup(table, em) == MethodData(EndpointMethods(table, em[1]), em[2])
AsMapping(table) == [em \in Keys(table) |-> Lookup(table, em)]

\* The left-to-right fold of the layers: every (endpoint, method) pair of
\* some layer, with the descriptor of the last layer that holds it and that
\* layer's place in the merge order.
FoldOfLayers(layers) ==
    LET Supplier(em) ==
            CHOOSE i \in 1..Len(layers) :
                /\ em \in Keys(layers[i])
                /\ \A j \in (i + 1)..Len(layers) : em \notin Keys(layers[j])
    IN  [em \in UNION {Keys(layers[i]) : i \in 1..Len(layers)} |->
            [layer |-> Supplier(em), data |-> Lookup(layers[Supplier(em)], em)]]

\* C2: getPrototype never changes the static protocol tables, and the
\* surface made for one session's flags holds no entry contributed by
\* another session's flags.
C2_TablesNeverMutated ==
    /\ tables = tables0
    /\ \A n \in DOMAIN prototype :
          <<prototype[n].endpoint, prototype[n].method>>
              \in DOMAIN FoldOfLayers(Layers(tables0, flags))

\* C6: for every flag combination the table getPrototype iterates is the
\* left-to-right fold of the layers the flags select, a later layer
\* overriding an earlier one on an (endpoint, method) collision.
C6_TableIsFoldOfLayers ==
    builds > 0 =>
        LET fold == FoldOfLayers(Layers(tables0, flags))
        IN  AsMapping(ProtocolCommands) = [em \in DOMAIN fold |-> fold[em].data]

\* C7: a command name declared by several entries that survive the merge
\* is bound to the entry supplied by the highest-precedence layer.
C7_HighestLayerWinsName ==
    builds > 0 =>
        LET fold == FoldOfLayers(Layers(tables0, flags))
            Declaring(n) == {em \in DOMAIN fold : fold[em].data.command = n}
            Top(n) == {em \in Declaring(n) :
                          \A other \in Declaring(n) : fold[other].layer <= fold[em].layer}
        IN  \A n \in {fold[em].data.command : em \in DOMAIN fold} :
                /\ n \in DOMAIN prototype
                /\ \E em \in Top(n) :
                      /\ prototype[n].endpoint = em[1]
                      /\ prototype[n].method = em[2]
                      /\ prototype[n].commandData.ref = fold[em].data.ref

\* The first call of getPrototype on fresh tables: where C2 is not yet in
\* play, C6 and C7 fail for the overriding tables alone.
C6_OnFirstBuild == builds = 1 => C6_TableIsFoldOfLayers
C7_OnFirstBuild == builds = 1 => C7_HighestLayerWinsName

---------------------------------------------------------------------------
(* Session creation: claims C3, C4, C5 and C8.                             *)

\* An object carries property k when it has it with a value that is not
\* null.
Carries(o, k) == Has(o, k) /\ Get(o, k) # Null

\* C3: the session-creation request carries both forms of the requested
\* capabilities.  If the input has an alwaysMatch sub-object, the structured
\* form is the input and the legacy form is that sub-object; otherwise the
\* structured form is {alwaysMatch: input, firstMatch: [{}]} and the legacy
\* form is the input.
C3_RequestCarriesBothForms ==
    pc = "requesting" =>
        LET input == Get(before, "capabilities")
            structured == Get(sessionRequest.body, "capabilities")
            legacy == Get(sessionRequest.body, "desiredCapabilities")
        IN  /\ sessionRequest.method = "POST"
            /\ sessionRequest.endpoint = "/session"
            /\ IF Carries(input, "alwaysMatch")
               THEN /\ structured = input
                    /\ legacy = input.f["alwaysMatch"]
               ELSE /\ structured.t = "object"
                    /\ DOMAIN structured.f = {"alwaysMatch", "firstMatch"}
                    /\ structured.f["alwaysMatch"] = input
                    /\ structured.f["firstMatch"] = Arr(<<EmptyObject>>)
                    /\ legacy = input

\* C3's case: a request is in flight for structured capabilities whose
\* alwaysMatch is the empty object, and carries them unchanged.
C3_Witness ==
    /\ pc = "requesting"
    /\ Has(Get(before, "capabilities"), "alwaysMatch")
    /\ Get(Get(before, "capabilities"), "alwaysMatch") = EmptyObject
    /\ Get(sessionRequest.body, "capabilities") = Get(before, "capabilities")
    /\ Get(sessionRequest.body, "desiredCapabilities") = EmptyObject

\* A reply in one of the two envelopes that the classifier accepts.
NonErrorEnvelope(r) ==
    /\ r.kind = "response"
    /\ RuleOutcome[FirstMatchingRule(r.statusCode, r.body)]
    /\ Get(r.body, "value").t = "object"

\* C4: for a non-error reply in either envelope the call returns
\* response.value.sessionId if present, else response.sessionId, and records
\* response.value.capabilities if present, else response.value.
C4_SessionResolved ==
    NonErrorEnvelope(reply) =>
        LET value == Get(reply.body, "value")
        IN  /\ pc \in {"established", "connected"}
            /\ result = Return(IF Carries(value, "sessionId")
                               THEN value.f["sessionId"]
                               ELSE Get(reply.body, "sessionId"))
            /\ Get(params, "capabilities") =
                   IF Carries(value, "capabilities")
                   THEN value.f["capabilities"] ELSE value

\* C4's case: a legacy flat reply, the identifier beside a value that is
\* the capabilities, has been resolved to that identifier.
C4_Witness ==
    /\ pc = "established"
    /\ NonErrorEnvelope(reply)
    /\ ~Has(Get(reply.body, "value"), "sessionId")
    /\ ~Has(Get(reply.body, "value"), "capabilities")
    /\ result = Return(Str("abc123"))
    /\ Get(params, "capabilities") = Get(reply.body, "value")

\* C5: a call that ends by raising leaves params as it was before the call;
\* requestedCapabilities and capabilities are written only by a call that
\* returns a session identifier, both together, and it writes nothing else.
C5_FailureLeavesParams ==
    /\ pc \in {"requesting", "failed"} => params = before
    /\ pc = "failed" => result.kind = "throw"
    /\ pc = "established" =>
          /\ result.kind = "return"
          /\ DOMAIN params.f = DOMAIN before.f \cup {"requestedCapabilities", "capabilities"}
          /\ \A k \in DOMAIN before.f \ {"requestedCapabilities", "capabilities"} :
                params.f[k] = before.f[k]
          /\ params.f["requestedCapabilities"] =
                ObjOf({<<"w3cCaps", Get(sessionRequest.body, "capabilities")>>,
                       <<"jsonwpCaps", Get(sessionRequest.body, "desiredCapabilities")>>})

\* C5's case: the transport delivered a reply the call cannot extract from
\* (its value is null), the call raised, and params is as before.
C5_Witness ==
    /\ pc = "failed"
    /\ reply.kind = "response"
    /\ Get(reply.body, "value") = Null
    /\ result.kind = "throw"
    /\ result.error.name = "TypeError"
    /\ params = before

\* C8: setupDirectConnect overwrites protocol, hostname, port and path with
\* the four direct-connect values exactly when the capabilities carry all
\* four, the path possibly empty; otherwise it changes nothing.
C8_DirectConnectAllOrNothing ==
    pc = "connected" =>
        LET caps == Get(before, "capabilities")
            NonEmpty(k) == Carries(caps, k) /\ Get(caps, k) # Str("")
        IN  IF /\ NonEmpty("directConnectProtocol")
               /\ NonEmpty("directConnectHost")
               /\ NonEmpty("directConnectPort")
               /\ Carries(caps, "directConnectPath")
            THEN /\ DOMAIN params.f = DOMAIN before.f \cup
                        {"protocol", "hostname", "port", "path"}
                 /\ \A k \in DOMAIN before.f \ {"protocol", "hostname", "port", "path"} :
                       params.f[k] = before.f[k]
                 /\ params.f["protocol"] = caps.f["directConnectProtocol"]
                 /\ params.f["hostname"] = caps.f["directConnectHost"]
                 /\ params.f["port"] = caps.f["directConnectPort"]
                 /\ params.f["path"] = caps.f["directConnectPath"]
            ELSE params = before

\* C8's case: the capabilities carried all four values with an empty path,
\* and the connection now points at them.
C8_Witness ==
    /\ pc = "connected"
    /\ Get(Get(before, "capabilities"), "directConnectPath") = Str("")
    /\ Get(params, "protocol") = Str("https")
    /\ Get(params, "hostname") = Str("node1.example.org")
    /\ Get(params, "port") = Num(4723)
    /\ Get(params, "path") = Str("")

===========================================================================
